---- MODULE Spec2Model ----
(***************************************************************************)
(* A model of blinkstick-rs (src/src/lib.rs): the BlinkStick handle, its   *)
(* feature-report transactions with bounded retry, the frame encoding of   *)
(* LED colors, and the blink / transform / pulse / carousel animations.    *)
(*                                                                         *)
(* The program is single threaded.  It is modelled as a stack machine:     *)
(* every function of lib.rs is one action that runs the function from its  *)
(* current position to its next call, return or panic.  The device is the  *)
(* environment: every transport attempt succeeds or fails at its choice.   *)
(***************************************************************************)
EXTENDS Integers, Sequences, FiniteSets, TLC

(***************************************************************************)
(* Program constants.                                                      *)
(***************************************************************************)
REPORT_ARRAY_BYTES == 100
\* the number of immediate attempts of a transaction (for _ in 0..5)
IMMEDIATE_ATTEMPTS == 5
\* report id of the single-LED report
REPORT_ONE == 5
\* report id of the all-LED report
REPORT_ALL == 6
\* the backoff before the last attempt, in milliseconds
BACKOFF_MS == 10
\* u8
U8_MOD == 256

(***************************************************************************)
(* Bounds of the model.                                                    *)
(***************************************************************************)
\* the largest number of LEDs of a modelled device
MaxLeds == 2
\* the largest step count of an animation
MaxSteps == 2
\* the largest blink count
MaxBlinks == 2
\* the longest time one animation step's device i/o takes, in ticks
MaxElapsed == 2
\* the largest step count of a gradient computed on its own
MaxGradientSteps == 7

(***************************************************************************)
(* IEEE-754 binary32 arithmetic on the non-negative values                 *)
(* calculate_gradients computes with.  A float is <<m, e>>, the value      *)
(* m * 2^e, with m = 0 or 2^23 <= m < 2^24.  Every operation rounds to     *)
(* nearest, ties to even, as the hardware does.                            *)
(***************************************************************************)
RECURSIVE Pow2(_)
Pow2(n) == IF n = 0 THEN 1 ELSE 2 * Pow2(n - 1)

F32_MANT_LO == 8388608
F32_MANT_HI == 16777216

F32Zero == <<0, 0>>
F32One == <<F32_MANT_LO, -23>>

\* the number of bits n has beyond 24 (0 when n < 2^24)
RECURSIVE ExcessBits(_)
ExcessBits(n) == IF n < F32_MANT_HI THEN 0 ELSE 1 + ExcessBits(n \div 2)

\* n * 2^e, n > 0 below 2^23, scaled up to a 24-bit mantissa (exact)
RECURSIVE ScaleUp(_, _)
ScaleUp(n, e) == IF n >= F32_MANT_LO THEN <<n, e>> ELSE ScaleUp(2 * n, e - 1)

\* the float nearest to n * 2^e (0 <= n < 2^31), ties to even
RoundF32(n, e) ==
    IF n = 0 THEN F32Zero
    ELSE IF n < F32_MANT_HI THEN ScaleUp(n, e)
    ELSE LET d == ExcessBits(n)
             q == n \div Pow2(d)
             r == n % Pow2(d)
             half == Pow2(d - 1)
             up == r > half \/ (r = half /\ q % 2 = 1)
             m == IF up THEN q + 1 ELSE q
         IN  IF m = F32_MANT_HI THEN <<F32_MANT_LO, e + d + 1>> ELSE <<m, e + d>>

\* num doubled until it reaches den: <<num * 2^s, s>>
RECURSIVE ShiftTo(_, _, _)
ShiftTo(num, den, s) == IF num >= den THEN <<num, s>> ELSE ShiftTo(2 * num, den, s + 1)

\* bits more quotient bits of rem / den appended to q: <<quotient, remainder>>
RECURSIVE LongDiv(_, _, _, _)
LongDiv(q, rem, den, bits) ==
    IF bits = 0 THEN <<q, rem>>
    ELSE LET r2 == 2 * rem
             bit == IF r2 >= den THEN 1 ELSE 0
         IN  LongDiv(2 * q + bit, r2 - bit * den, den, bits - 1)

\* step as f32 / steps as f32, for 1 <= step <= steps < 2^16
F32Div(step, steps) ==
    LET sh == ShiftTo(step, steps, 0)
        qr == LongDiv(1, sh[1] - steps, steps, 25)
        sticky == IF qr[2] # 0 THEN 1 ELSE 0
    IN  RoundF32(2 * qr[1] + sticky, -26 - sh[2])

\* 1.0 - p, for a float 0 < p <= 1
F32OneMinus(p) ==
    LET m == p[1]
        e == p[2]
    IN  IF -e <= 29 THEN RoundF32(Pow2(-e) - m, e)
        ELSE LET k == -e - 29
                 mq == m \div Pow2(k)
                 mr == m % Pow2(k)
             IN  IF mr = 0 THEN RoundF32(Pow2(29) - mq, -29)
                 ELSE RoundF32(2 * (Pow2(29) - mq - 1) + 1, -30)

\* (c as f32) * f, for a u8 c
F32MulU8(c, f) ==
    LET m == f[1]
        e == f[2]
    IN  IF c < 128 THEN RoundF32(c * m, e)
        ELSE LET mh == m \div 256
                 ml == m % 256
                 lo == c * ml
                 hi == c * mh + (lo \div 256)
                 low8 == lo % 256
                 sticky == IF low8 % 64 # 0 THEN 1 ELSE 0
             IN  RoundF32(2 * (4 * hi + (low8 \div 64)) + sticky, e + 5)

\* a + b
F32Add(a, b) ==
    IF a[1] = 0 THEN b
    ELSE IF b[1] = 0 THEN a
    ELSE LET hi == IF a[2] >= b[2] THEN a ELSE b
             lo == IF a[2] >= b[2] THEN b ELSE a
             d == hi[2] - lo[2]
             A == 8 * hi[1]
             L == 8 * lo[1]
             B == IF d >= 27 THEN 1
                  ELSE LET bq == L \div Pow2(d)
                       IN  IF L % Pow2(d) # 0 /\ bq % 2 = 0 THEN bq + 1 ELSE bq
         IN  RoundF32(A + B, hi[2] - 3)

\* f as u8: truncated toward zero, saturated at 255
F32ToU8(f) ==
    LET v == IF f[2] >= 0 THEN f[1]
             ELSE IF -f[2] > 30 THEN 0
             ELSE f[1] \div Pow2(-f[2])
    IN  IF v > U8_MOD - 1 THEN U8_MOD - 1 ELSE v

(***************************************************************************)
(* Colors and gradients.                                                   *)
(***************************************************************************)
Color(r, g, b) == [r |-> r, g |-> g, b |-> b]

COLOR_OFF == Color(0, 0, 0)

\* a bug: whole increments of (target - start) / steps, truncated, add up short
GradientChannelDrift(start, target, step, steps) ==
    IF target >= start THEN start + step * ((target - start) \div steps)
    ELSE start - step * ((start - target) \div steps)

\* one channel of one gradient element
GradientChannel(start, target, step, steps) ==
    LET step_percent == F32Div(step, steps)
    IN  F32ToU8(F32Add(F32MulU8(start, F32OneMinus(step_percent)),
                       F32MulU8(target, step_percent)))

\* the element of index step (1..steps) of the gradient
GradientColor(start_color, target_color, step, steps) ==
    Color(GradientChannel(start_color.r, target_color.r, step, steps),
          GradientChannel(start_color.g, target_color.g, step, steps),
          GradientChannel(start_color.b, target_color.b, step, steps))

\* a bug: (1..steps) for (1..=steps), the last element is missing
GradientsExclusive(start_color, target_color, steps) ==
    [step \in 1..(steps - 1) |-> GradientColor(start_color, target_color, step, steps)]

calculate_gradients(start_color, target_color, steps) ==
    [step \in 1..steps |-> GradientColor(start_color, target_color, step, steps)]


(***************************************************************************)
(* State.                                                                  *)
(***************************************************************************)
VARIABLES
    dev,              \* the device's all-LED report: <<id, meta, g0, r0, b0, g1, ...>>
    handle,           \* "none", "open" or "dropped": the BlinkStick value
    max_leds,         \* BlinkStick::max_leds
    report_length,    \* BlinkStick::report_length
    stack,            \* the call stack: one frame per active function, the last is running
    ret,              \* the value the last returned function handed to its caller
    call,             \* the frame of the public call in progress, or of the last one
    outcome,          \* what the last public call gave its caller; "running" while in progress
    last,             \* the last completed call that writes, no write begun since
    tx,               \* the transaction in progress, or the last one: its attempts and sleeps
    log,              \* the transactions begun by the public call, in order, with their results
    pre               \* the colors the device showed when the last call that writes began

vars == <<dev, handle, max_leds, report_length, stack, ret,
          call, outcome, last, tx, log, pre>>
hvars == <<handle, max_leds, report_length>>

(***************************************************************************)
(* Values returned by functions: Result::Ok, Result::Err(FeatureError) and *)
(* a panic, which unwinds every frame.                                     *)
(***************************************************************************)
R(kind, val) == [kind |-> kind, val |-> val]
Ok(v) == R("Ok", v)
Err(k) == R("Err", k)
Unit == "()"
None == R("none", "none")
Running == R("running", "running")

\* panic!("... led {} ...", led [, max_leds - 1]): names holds the values the message prints
OutOfBoundsPanic(names) == R("panic", [what |-> "out_of_bounds", names |-> names])
\* "attempt to add / multiply / subtract with overflow" of a build with overflow checks
OverflowPanic == R("panic", [what |-> "arithmetic_overflow", names |-> <<>>])
\* Result::unwrap on an Err
UnwrapPanic == R("panic", [what |-> "unwrap_on_err", names |-> <<>>])
\* Duration - Duration below zero: "overflow when subtracting durations"
DurationPanic == R("panic", [what |-> "duration_sub_overflow", names |-> <<>>])
\* indexing past the end of an array, a slice or a Vec
IndexPanic == R("panic", [what |-> "index_out_of_bounds", names |-> <<>>])
\* Duration / 0 or an integer division by zero
DivZeroPanic == R("panic", [what |-> "divide_by_zero", names |-> <<>>])

IsPanic(v) == v.kind = "panic"

(***************************************************************************)
(* The device channel: feature reports sent to and read from the device.   *)
(***************************************************************************)
\* the number of LEDs whose triplet lies in a report of n bytes
LedsIn(n) == IF n < 2 THEN 0 ELSE (n - 2) \div 3

\* the device after it took the feature report
DevSend(d, feature) ==
    IF feature[1] = REPORT_ONE
    THEN LET led == feature[3]
             at == led * 3 + 2
         IN  IF Len(feature) >= 6 /\ at + 3 <= Len(d)
             THEN [d EXCEPT ![at + 1] = feature[5],
                            ![at + 2] = feature[4],
                            ![at + 3] = feature[6]]
             ELSE d
    ELSE IF feature[1] = REPORT_ALL
    THEN [i \in 1..Len(d) |-> IF i >= 2 /\ i <= Len(feature) THEN feature[i] ELSE d[i]]
    ELSE d

\* the caller's buffer after the device wrote its report into it
DevGet(d, buf) ==
    [i \in 1..Len(buf) |-> IF i <= Len(d) THEN d[i] ELSE buf[i]]

\* the colors the device shows, led by led
Shown(d) == [k \in 1..LedsIn(Len(d)) |-> Color(d[3 * k + 1], d[3 * k], d[3 * k + 2])]

\* a bug: the buffer is filled with 0xFF, not with zeroes
ReportBufDirty(id) == [i \in 1..REPORT_ARRAY_BYTES |-> IF i = 1 THEN id ELSE U8_MOD - 1]

\* a buffer of REPORT_ARRAY_BYTES zeroes with byte 0 set to the report id
ReportBuf(id) == [i \in 1..REPORT_ARRAY_BYTES |-> IF i = 1 THEN id ELSE 0]

(***************************************************************************)
(* The stack machine.                                                      *)
(***************************************************************************)
Top == stack[Len(stack)]
InFn(fn) == stack # <<>> /\ Top.fn = fn

\* the functions that write to the device
Mutates(fn) == fn \notin {"get_led_color", "get_all_led_colors", "get_color_vec"}

\* the running function moves to frame f and calls g
Push(f, g) ==
    /\ stack' = Append([stack EXCEPT ![Len(stack)] = f], g)
    /\ ret' = None
    /\ UNCHANGED <<call, outcome, last>>

\* the running function moves to frame f without calling
Goto(f) ==
    /\ stack' = [stack EXCEPT ![Len(stack)] = f]
    /\ ret' = None
    /\ UNCHANGED <<call, outcome, last>>

Finish(v) ==
    /\ outcome' = v
    /\ last' = IF Mutates(call.fn) THEN [call |-> call, outcome |-> v] ELSE last
    /\ UNCHANGED call

\* the running function returns v to its caller
Return(v) ==
    /\ stack' = SubSeq(stack, 1, Len(stack) - 1)
    /\ ret' = v
    /\ IF Len(stack) = 1 THEN Finish(v) ELSE UNCHANGED <<call, outcome, last>>

\* the running function panics: every frame unwinds
Panic(p) ==
    /\ stack' = <<>>
    /\ ret' = p
    /\ Finish(p)

\* a caller's `?` and a tail call: hand the callee's value on
Propagates(v) == v.kind = "Err"


(***************************************************************************)
(* u8 arithmetic.  A build with overflow checks (checks) panics where a    *)
(* build without them wraps.                                               *)
(***************************************************************************)
OVERFLOW == -1

\* (x * 3) + 2 computed in u8
U8Offset(x, checks) ==
    IF x * 3 + 2 < U8_MOD THEN x * 3 + 2
    ELSE IF checks THEN OVERFLOW
    ELSE (x * 3 + 2) % U8_MOD

\* x - 1 computed in u8
U8Pred(x, checks) ==
    IF x >= 1 THEN x - 1
    ELSE IF checks THEN OVERFLOW
    ELSE U8_MOD - 1

\* the panic of the bounds checks that print the led and the valid range
RangePanic(led, checks) ==
    IF U8Pred(max_leds, checks) = OVERFLOW THEN OverflowPanic
    ELSE OutOfBoundsPanic(<<led, U8Pred(max_leds, checks)>>)

(***************************************************************************)
(* The resilient transaction layer.                                        *)
(***************************************************************************)
NewTx(dir) ==
    [dir |-> dir, attempts |-> 0, oks |-> 0, sleeps |-> 0, slept_ms |-> 0, result |-> None]
NoTx == NewTx("none")

\* one transport attempt, ok or not, noted
Attempted(t, ok) ==
    [t EXCEPT !.attempts = @ + 1, !.oks = IF ok THEN @ + 1 ELSE @]

\* a bug: the loop makes one attempt more before the backoff
LoopExhaustedLate(i) == i >= IMMEDIATE_ATTEMPTS

\* whether attempt number i (from 0) of the loop, failed, was the loop's last
LoopExhausted(i) == i + 1 >= IMMEDIATE_ATTEMPTS

\* a bug: the attempt after the backoff is made and its success ignored
LastAttemptIgnored(ok, v, kind) == Err(kind)

\* what the attempt after the backoff gives: the value on success, else the classified error
LastAttempt(ok, v, kind) == IF ok THEN Ok(v) ELSE Err(kind)

\* the frame of a call of send_feature_to_blinkstick / get_feature_from_blinkstick
SendFrame(feature) ==
    [fn |-> "send_feature_to_blinkstick", pc |-> "loop", i |-> 0, feature |-> feature]
GetFrame(id) ==
    [fn |-> "get_feature_from_blinkstick", pc |-> "loop", i |-> 0, id |-> id]

\* the steps the two functions share: dir, the logged data, the device and
\* the value after a successful attempt, and the error kind
Transaction(dir, data, devAfter, value, kind) ==
    LET f == Top
        first == f.pc = "loop" /\ f.i = 0
        t == IF first THEN NewTx(dir) ELSE tx
        begun == IF first THEN Append(log, [dir |-> dir, data |-> data, result |-> None])
                 ELSE log
        done(v) == [begun EXCEPT ![Len(begun)].result = v]
    IN  /\ CASE f.pc = "loop" ->
                  \E ok \in BOOLEAN :
                      IF ok
                      THEN /\ tx' = [Attempted(t, ok) EXCEPT !.result = Ok(value)]
                           /\ log' = done(Ok(value))
                           /\ dev' = devAfter
                           /\ Return(Ok(value))
                      ELSE /\ tx' = Attempted(t, ok)
                           /\ log' = begun
                           /\ dev' = dev
                           /\ Goto(IF LoopExhausted(f.i)
                                   THEN [f EXCEPT !.pc = "sleep"]
                                   ELSE [f EXCEPT !.i = @ + 1])
             [] f.pc = "sleep" ->
                  /\ tx' = [t EXCEPT !.sleeps = @ + 1, !.slept_ms = @ + BACKOFF_MS]
                  /\ log' = begun
                  /\ dev' = dev
                  /\ Goto([f EXCEPT !.pc = "last"])
             [] f.pc = "last" ->
                  \E ok \in BOOLEAN :
                      LET v == LastAttempt(ok, value, kind)
                      IN  /\ tx' = [Attempted(t, ok) EXCEPT !.result = v]
                          /\ log' = done(v)
                          /\ dev' = IF ok THEN devAfter ELSE dev
                          /\ Return(v)
        /\ UNCHANGED <<hvars, pre>>

send_feature_to_blinkstick ==
    /\ InFn("send_feature_to_blinkstick")
    /\ Transaction("send", Top.feature, DevSend(dev, Top.feature), Unit, "Send")

get_feature_from_blinkstick ==
    /\ InFn("get_feature_from_blinkstick")
    /\ Transaction("get", <<Top.id>>, dev, DevGet(dev, ReportBuf(Top.id)), "Get")

(***************************************************************************)
(* The frame codec and the functions that set and get colors.              *)
(***************************************************************************)
\* a bug: the single-LED report filled in the all-LED report's G, R, B order
SingleLedReportGRB(led, color) == <<REPORT_ONE, 0, led, color.g, color.r, color.b>>

\* [0x5, 0, led, r, g, b]
SingleLedReport(led, color) == <<REPORT_ONE, 0, led, color.r, color.g, color.b>>

\* a bug: the triplet written as R, G, B
PutColorRGB(data_vec, led_offset, color) ==
    [data_vec EXCEPT ![led_offset + 1] = color.r,
                     ![led_offset + 2] = color.g,
                     ![led_offset + 3] = color.b]

\* data_vec with the color written at led_offset (0-based) as G, R, B
PutColor(data_vec, led_offset, color) ==
    [data_vec EXCEPT ![led_offset + 1] = color.g,
                     ![led_offset + 2] = color.r,
                     ![led_offset + 3] = color.b]

\* the Color of the triplet at led_color_index (0-based) of buf
TakeColor(buf, led_color_index) ==
    Color(buf[led_color_index + 2], buf[led_color_index + 1], buf[led_color_index + 3])

\* the loop of set_multiple_leds_color from its i-th led: Ok(data_vec) or a panic
RECURSIVE FillLeds(_, _, _, _, _)
FillLeds(leds, color, i, data_vec, checks) ==
    IF i > Len(leds) THEN Ok(data_vec)
    ELSE LET led == leds[i]
             led_offset == U8Offset(led, checks)
             bound == U8Offset(max_leds, checks)
         IN  IF led_offset = OVERFLOW \/ bound = OVERFLOW THEN OverflowPanic
             ELSE IF led_offset >= bound THEN RangePanic(led, checks)
             ELSE IF led_offset + 2 >= REPORT_ARRAY_BYTES THEN IndexPanic
             ELSE FillLeds(leds, color, i + 1, PutColor(data_vec, led_offset, color), checks)

\* a bug: the leds past the colors given are filled with the last color given
FillColorsRepeatLast(colors, i, data_vec, checks) ==
    Ok([j \in 1..Len(data_vec) |->
           LET k == ((j - 3) \div 3) + 1
           IN  IF j < 3 \/ k > max_leds \/ colors = <<>> THEN data_vec[j]
               ELSE LET c == colors[IF k <= Len(colors) THEN k ELSE Len(colors)]
                    IN  CASE (j - 3) % 3 = 0 -> c.g
                          [] (j - 3) % 3 = 1 -> c.r
                          [] OTHER -> c.b])

\* the loop of set_all_leds_colors from its i-th color: Ok(data_vec) or a panic
RECURSIVE FillColors(_, _, _, _)
FillColors(colors, i, data_vec, checks) ==
    IF i > Len(colors) \/ i > max_leds THEN Ok(data_vec)
    ELSE LET led_index == i - 1
             led_offset == led_index * 3 + 2
             bound == U8Offset(max_leds, checks)
         IN  IF bound = OVERFLOW THEN OverflowPanic
             ELSE IF led_offset >= bound THEN RangePanic(led_index, checks)
             ELSE IF led_offset + 2 >= REPORT_ARRAY_BYTES THEN IndexPanic
             ELSE FillColors(colors, i + 1, PutColor(data_vec, led_offset, colors[i]), checks)

\* a bug: the report sent is one led short
ReportSliceShort(data_vec) == SubSeq(data_vec, 1, report_length - 3)

\* &data_vec[0..self.report_length]
ReportSlice(data_vec) == SubSeq(data_vec, 1, report_length)

\* the colors get_all_led_colors reads out of buf
DecodeColors(buf) == [k \in 1..max_leds |-> TakeColor(buf, (k - 1) * 3 + 2)]

set_led_color ==
    /\ InFn("set_led_color")
    /\ LET f == Top
       IN  CASE f.pc = "start" ->
                  IF f.led >= max_leds THEN Panic(OutOfBoundsPanic(<<f.led>>))
                  ELSE Push([f EXCEPT !.pc = "ret"], SendFrame(SingleLedReport(f.led, f.color)))
             [] f.pc = "ret" -> Return(ret)
    /\ UNCHANGED <<dev, hvars, log, pre>> /\ tx' = NoTx

set_multiple_leds_color ==
    /\ InFn("set_multiple_leds_color")
    /\ LET f == Top
       IN  CASE f.pc = "start" ->
                  \E checks \in BOOLEAN :
                      LET filled == FillLeds(f.leds, f.color, 1, ReportBuf(REPORT_ALL), checks)
                      IN  IF IsPanic(filled) THEN Panic(filled)
                          ELSE Push([f EXCEPT !.pc = "ret"],
                                    SendFrame(ReportSlice(filled.val)))
             [] f.pc = "ret" -> Return(ret)
    /\ UNCHANGED <<dev, hvars, log, pre>> /\ tx' = NoTx

\* a bug: (0..self.max_leds - 1), the last led is left out
AllLedsButLast == [k \in 1..(max_leds - 1) |-> k - 1]

\* (0..self.max_leds).collect()
AllLeds == [k \in 1..max_leds |-> k - 1]

set_all_leds_color ==
    /\ InFn("set_all_leds_color")
    /\ LET f == Top
       IN  CASE f.pc = "start" ->
                  Push([f EXCEPT !.pc = "ret"],
                       [fn |-> "set_multiple_leds_color", pc |-> "start",
                        leds |-> AllLeds, color |-> f.color])
             [] f.pc = "ret" -> Return(ret)
    /\ UNCHANGED <<dev, hvars, log, pre>> /\ tx' = NoTx

set_all_leds_colors ==
    /\ InFn("set_all_leds_colors")
    /\ LET f == Top
       IN  CASE f.pc = "start" ->
                  \E checks \in BOOLEAN :
                      LET filled == FillColors(f.colors, 1, ReportBuf(REPORT_ALL), checks)
                      IN  IF IsPanic(filled) THEN Panic(filled)
                          ELSE Push([f EXCEPT !.pc = "ret"],
                                    SendFrame(ReportSlice(filled.val)))
             [] f.pc = "ret" -> Return(ret)
    /\ UNCHANGED <<dev, hvars, log, pre>> /\ tx' = NoTx

get_all_led_colors ==
    /\ InFn("get_all_led_colors")
    /\ LET f == Top
       IN  CASE f.pc = "start" -> Push([f EXCEPT !.pc = "decode"], GetFrame(REPORT_ALL))
             [] f.pc = "decode" ->
                  IF Propagates(ret) THEN Return(ret)
                  ELSE Return(Ok(DecodeColors(ret.val)))
    /\ UNCHANGED <<dev, hvars, log, pre>> /\ tx' = NoTx

get_led_color ==
    /\ InFn("get_led_color")
    /\ LET f == Top
       IN  CASE f.pc = "start" ->
                  Push([f EXCEPT !.pc = "check"], [fn |-> "get_all_led_colors", pc |-> "start"])
             [] f.pc = "check" ->
                  IF Propagates(ret) THEN Return(ret)
                  ELSE IF f.led >= max_leds
                  THEN \E checks \in BOOLEAN : Panic(RangePanic(f.led, checks))
                  ELSE Return(Ok(ret.val[f.led + 1]))
    /\ UNCHANGED <<dev, hvars, log, pre>> /\ tx' = NoTx


(***************************************************************************)
(* Animations.  Durations are in ticks.  What one step's device i/o takes  *)
(* (start.elapsed()) is the environment's choice.                          *)
(***************************************************************************)
U16_MOD == 65536

\* a bug: a failed step is not noticed and the animation goes on
StepIgnored(v) == FALSE

\* the ? after a step's transaction: the animation ends with the step's error
StepFailed(v) == v.kind = "Err"

SetLedFrame(led, color) ==
    [fn |-> "set_led_color", pc |-> "start", led |-> led, color |-> color]
SetMultipleFrame(leds, color) ==
    [fn |-> "set_multiple_leds_color", pc |-> "start", leds |-> leds, color |-> color]
SetAllColorsFrame(colors) ==
    [fn |-> "set_all_leds_colors", pc |-> "start", colors |-> colors]
GetLedFrame(led) == [fn |-> "get_led_color", pc |-> "start", led |-> led]
GetAllFrame == [fn |-> "get_all_led_colors", pc |-> "start"]

turn_off_led ==
    /\ InFn("turn_off_led")
    /\ LET f == Top
       IN  CASE f.pc = "start" -> Push([f EXCEPT !.pc = "ret"], SetLedFrame(f.led, COLOR_OFF))
             [] f.pc = "ret" -> Return(ret)
    /\ UNCHANGED <<dev, hvars, log, pre>> /\ tx' = NoTx

\* a bug: the second write of a blink writes the blink's color again
BlinkOffSame(color) == color

\* the color of the second write of a blink: Color { r: 0, g: 0, b: 0 }
BlinkOff(color) == Color(0, 0, 0)

\* a bug: the range of the blink loop includes its end
BlinksDoneInclusive(n, blinks) == n > blinks

\* whether the range 0..blinks is exhausted after n iterations
BlinksDone(n, blinks) == n >= blinks

\* for _ in 0..blinks { on(color)?; sleep(delay); on(COLOR_OFF)?; sleep(delay); }
\* with n blinks done: the loop's next iteration, or the end
BlinkLoop(f, n, on(_)) ==
    IF BlinksDone(n, f.blinks) THEN Return(Ok(Unit))
    ELSE Push([f EXCEPT !.pc = "lit", !.n = n], on(f.color))

Blink(f, on(_)) ==
    CASE f.pc = "start" -> BlinkLoop(f, 0, on)
      [] f.pc = "lit" ->
           IF StepFailed(ret) THEN Return(ret)
           ELSE Push([f EXCEPT !.pc = "unlit"], on(BlinkOff(f.color)))
      [] f.pc = "unlit" ->
           IF StepFailed(ret) THEN Return(ret)
           ELSE BlinkLoop(f, f.n + 1, on)

blink_led_color ==
    /\ InFn("blink_led_color")
    /\ LET on(c) == SetLedFrame(Top.led, c)
       IN  Blink(Top, on)
    /\ UNCHANGED <<dev, hvars, log, pre>> /\ tx' = NoTx

blink_multiple_leds_color ==
    /\ InFn("blink_multiple_leds_color")
    /\ LET on(c) == SetMultipleFrame(Top.leds, c)
       IN  Blink(Top, on)
    /\ UNCHANGED <<dev, hvars, log, pre>> /\ tx' = NoTx

BlinkMultipleFrame(leds, delay, blinks, color) ==
    [fn |-> "blink_multiple_leds_color", pc |-> "start", leds |-> leds, delay |-> delay,
     blinks |-> blinks, color |-> color, n |-> 0]

blink_all_leds_color ==
    /\ InFn("blink_all_leds_color")
    /\ LET f == Top
       IN  CASE f.pc = "start" ->
                  Push([f EXCEPT !.pc = "ret"],
                       BlinkMultipleFrame(AllLeds, f.delay, f.blinks, f.color))
             [] f.pc = "ret" -> Return(ret)
    /\ UNCHANGED <<dev, hvars, log, pre>> /\ tx' = NoTx

\* interval.saturating_sub(elapsed)
SaturatingSub(interval, elapsed) == IF elapsed >= interval THEN 0 ELSE interval - elapsed

\* the pacing of transform_led_color and transform_leds after a step's write:
\* sleep what is left of the interval, nothing when the step overran it
PacedClamped(f) ==
    \E elapsed \in 0..MaxElapsed :
        Goto([f EXCEPT !.pc = "paced", !.elapsed = elapsed,
                       !.slept = SaturatingSub(f.interval, elapsed)])

\* the pacing of transform_multiple_leds_color: sleep(interval.sub(start.elapsed()))
PacedSub(f) ==
    \E elapsed \in 0..MaxElapsed :
        IF elapsed > f.interval THEN Panic(DurationPanic)
        ELSE Goto([f EXCEPT !.pc = "paced", !.elapsed = elapsed,
                            !.slept = f.interval - elapsed])

TransformLedFrame(led, duration, steps, target_color) ==
    [fn |-> "transform_led_color", pc |-> "start", led |-> led, duration |-> duration,
     steps |-> steps, target_color |-> target_color,
     interval |-> 0, gradient |-> <<>>, k |-> 0, elapsed |-> 0, slept |-> 0]

\* for color in gradient: the k-th step (from 1), or the end
TransformLedLoop(f, k) ==
    IF k > Len(f.gradient) THEN Return(Ok(Unit))
    ELSE Push([f EXCEPT !.pc = "set", !.k = k, !.elapsed = 0, !.slept = 0],
              SetLedFrame(f.led, f.gradient[k]))

transform_led_color ==
    /\ InFn("transform_led_color")
    /\ LET f == Top
       IN  CASE f.pc = "start" ->
                  IF f.steps = 0 THEN Panic(DivZeroPanic)
                  ELSE Push([f EXCEPT !.pc = "got", !.interval = f.duration \div f.steps],
                            GetLedFrame(f.led))
             [] f.pc = "got" ->
                  IF Propagates(ret) THEN Return(ret)
                  ELSE TransformLedLoop(
                           [f EXCEPT !.gradient =
                                calculate_gradients(ret.val, f.target_color, f.steps)], 1)
             [] f.pc = "set" -> IF StepFailed(ret) THEN Return(ret) ELSE PacedClamped(f)
             [] f.pc = "paced" -> TransformLedLoop(f, f.k + 1)
    /\ UNCHANGED <<dev, hvars, log, pre>> /\ tx' = NoTx

\* a bug: the step's frame is a run of consecutive elements, one led's gradient
StepColorsChunk(led_gradients, step, steps) ==
    SubSeq(led_gradients, step * (Len(led_gradients) \div steps) + 1,
           (step + 1) * (Len(led_gradients) \div steps))

\* led_gradients.iter().skip(step).step_by(steps).copied().collect(), step from 0
StepColors(led_gradients, step, steps) ==
    [j \in 1..((Len(led_gradients) - step + steps - 1) \div steps) |->
        led_gradients[step + (j - 1) * steps + 1]]

TransformLedsFrame(led_gradients, duration, steps) ==
    [fn |-> "transform_leds", pc |-> "start", led_gradients |-> led_gradients,
     duration |-> duration, steps |-> steps,
     interval |-> 0, step |-> 0, elapsed |-> 0, slept |-> 0]

\* for step in 0..steps: the step, or the end
TransformLedsLoop(f, step) ==
    IF step >= f.steps THEN Return(Ok(Unit))
    ELSE Push([f EXCEPT !.pc = "set", !.step = step, !.elapsed = 0, !.slept = 0],
              SetAllColorsFrame(StepColors(f.led_gradients, step, f.steps)))

transform_leds ==
    /\ InFn("transform_leds")
    /\ LET f == Top
       IN  CASE f.pc = "start" ->
                  IF f.steps = 0 THEN Panic(DivZeroPanic)
                  ELSE TransformLedsLoop([f EXCEPT !.interval = f.duration \div f.steps], 0)
             [] f.pc = "set" -> IF StepFailed(ret) THEN Return(ret) ELSE PacedClamped(f)
             [] f.pc = "paced" -> TransformLedsLoop(f, f.step + 1)
    /\ UNCHANGED <<dev, hvars, log, pre>> /\ tx' = NoTx

\* the loop that reads each led's color and appends its gradient, at its
\* i-th target (from 1): the next read, or the call of transform_leds
GatherLoop(f, i, targets) ==
    IF i > Len(targets) \/ i > max_leds
    THEN Push([f EXCEPT !.pc = "ret"],
              TransformLedsFrame(f.led_gradients, f.duration, f.steps))
    ELSE Push([f EXCEPT !.pc = "got", !.i = i], GetLedFrame((i - 1) % U8_MOD))

\* Vec::with_capacity((self.max_leds as u16 * steps) as usize), then the loop
Gather(f, targets) ==
    CASE f.pc = "start" ->
           \E checks \in BOOLEAN :
               IF checks /\ max_leds * f.steps >= U16_MOD THEN Panic(OverflowPanic)
               ELSE GatherLoop(f, 1, targets)
      [] f.pc = "got" ->
           IF Propagates(ret) THEN Return(ret)
           ELSE GatherLoop(
                    [f EXCEPT !.led_gradients =
                         @ \o calculate_gradients(ret.val, targets[f.i], f.steps)],
                    f.i + 1, targets)
      [] f.pc = "ret" -> Return(ret)

TransformAllColorsFrame(duration, steps, target_colors) ==
    [fn |-> "transform_all_leds_colors", pc |-> "start", duration |-> duration,
     steps |-> steps, target_colors |-> target_colors, led_gradients |-> <<>>, i |-> 0]

TransformAllColorFrame(duration, steps, target_color) ==
    [fn |-> "transform_all_leds_color", pc |-> "start", duration |-> duration,
     steps |-> steps, target_color |-> target_color, led_gradients |-> <<>>, i |-> 0]

transform_all_leds_colors ==
    /\ InFn("transform_all_leds_colors")
    /\ Gather(Top, Top.target_colors)
    /\ UNCHANGED <<dev, hvars, log, pre>> /\ tx' = NoTx

transform_all_leds_color ==
    /\ InFn("transform_all_leds_color")
    /\ Gather(Top, [k \in 1..max_leds |-> Top.target_color])
    /\ UNCHANGED <<dev, hvars, log, pre>> /\ tx' = NoTx

TransformMultipleFrame(leds, duration, steps, target_color) ==
    [fn |-> "transform_multiple_leds_color", pc |-> "start", leds |-> leds,
     duration |-> duration, steps |-> steps, target_color |-> target_color,
     interval |-> 0, led_gradients |-> <<>>, i |-> 0, step |-> 0, elapsed |-> 0, slept |-> 0]

\* a bug: a step starts from dark leds and not from the colors it read
OverlayOnDark(all_led_colors, leds, led_gradients, steps, step, i) ==
    Ok([k \in 1..Len(all_led_colors) |->
           LET at == {j \in 1..Len(leds) : leds[j] = k - 1}
           IN  IF at = {} THEN COLOR_OFF
               ELSE LET j == CHOOSE x \in at : \A y \in at : y <= x
                    IN  led_gradients[(j - 1) * steps + step + 1]])

\* all_led_colors[*led as usize] = led_gradients[index * steps + step], from the i-th led
RECURSIVE Overlay(_, _, _, _, _, _)
Overlay(all_led_colors, leds, led_gradients, steps, step, i) ==
    IF i > Len(leds) THEN Ok(all_led_colors)
    ELSE LET at == (i - 1) * steps + step
         IN  IF leds[i] >= Len(all_led_colors) \/ at >= Len(led_gradients) THEN IndexPanic
             ELSE Overlay([all_led_colors EXCEPT ![leds[i] + 1] = led_gradients[at + 1]],
                          leds, led_gradients, steps, step, i + 1)

\* for step in 0..steps: the step's read, or the end
TransformMultipleLoop(f, step) ==
    IF step >= f.steps THEN Return(Ok(Unit))
    ELSE Push([f EXCEPT !.pc = "all", !.step = step, !.elapsed = 0, !.slept = 0], GetAllFrame)

\* for led in leds.iter(): the i-th read (from 1), or the first step
TransformMultipleGather(f, i) ==
    IF i > Len(f.leds) THEN TransformMultipleLoop(f, 0)
    ELSE Push([f EXCEPT !.pc = "got", !.i = i], GetLedFrame(f.leds[i]))

transform_multiple_leds_color ==
    /\ InFn("transform_multiple_leds_color")
    /\ LET f == Top
       IN  CASE f.pc = "start" ->
                  IF f.steps = 0 THEN Panic(DivZeroPanic)
                  ELSE TransformMultipleGather(
                           [f EXCEPT !.interval = f.duration \div f.steps], 1)
             [] f.pc = "got" ->
                  IF Propagates(ret) THEN Return(ret)
                  ELSE TransformMultipleGather(
                           [f EXCEPT !.led_gradients =
                                @ \o calculate_gradients(ret.val, f.target_color, f.steps)],
                           f.i + 1)
             [] f.pc = "all" ->
                  IF Propagates(ret) THEN Return(ret)
                  ELSE LET colors == Overlay(ret.val, f.leds, f.led_gradients,
                                             f.steps, f.step, 1)
                       IN  IF IsPanic(colors) THEN Panic(colors)
                           ELSE Push([f EXCEPT !.pc = "set"], SetAllColorsFrame(colors.val))
             [] f.pc = "set" -> IF StepFailed(ret) THEN Return(ret) ELSE PacedSub(f)
             [] f.pc = "paced" -> TransformMultipleLoop(f, f.step + 1)
    /\ UNCHANGED <<dev, hvars, log, pre>> /\ tx' = NoTx

\* a bug: the way back of a pulse goes to the pulse's color again
PulseBackToColor(old, color) == color

\* the target of a pulse's second transform: what the pulse read before the first
PulseBack(old, color) == old

\* duration / 2, duration.div(2)
Half(duration) == duration \div 2

\* let old = read?; there?; back
Pulse(f, read, there, back(_)) ==
    CASE f.pc = "start" -> Push([f EXCEPT !.pc = "got"], read)
      [] f.pc = "got" ->
           IF Propagates(ret) THEN Return(ret)
           ELSE Push([f EXCEPT !.pc = "there", !.old = ret.val], there)
      [] f.pc = "there" ->
           IF StepFailed(ret) THEN Return(ret)
           ELSE Push([f EXCEPT !.pc = "back"], back(f.old))
      [] f.pc = "back" -> Return(ret)

pulse_led_color ==
    /\ InFn("pulse_led_color")
    /\ LET f == Top
           back(old) == TransformLedFrame(f.led, Half(f.duration), f.steps,
                                          PulseBack(old, f.color))
       IN  Pulse(f, GetLedFrame(f.led),
                 TransformLedFrame(f.led, Half(f.duration), f.steps, f.color), back)
    /\ UNCHANGED <<dev, hvars, log, pre>> /\ tx' = NoTx

pulse_multiple_leds_color ==
    /\ InFn("pulse_multiple_leds_color")
    /\ LET f == Top
           back(old) == TransformAllColorsFrame(Half(f.duration), f.steps,
                                                PulseBack(old, [k \in 1..Len(old) |-> f.color]))
       IN  Pulse(f, GetAllFrame,
                 TransformMultipleFrame(f.leds, Half(f.duration), f.steps, f.color), back)
    /\ UNCHANGED <<dev, hvars, log, pre>> /\ tx' = NoTx

pulse_all_leds_color ==
    /\ InFn("pulse_all_leds_color")
    /\ LET f == Top
           back(old) == TransformAllColorsFrame(Half(f.duration), f.steps,
                                                PulseBack(old, [k \in 1..Len(old) |-> f.color]))
       IN  Pulse(f, GetAllFrame,
                 TransformAllColorFrame(Half(f.duration), f.steps, f.color), back)
    /\ UNCHANGED <<dev, hvars, log, pre>> /\ tx' = NoTx

\* a bug: the second lap runs over the gradient as it is
ReverseNot(s) == s

\* carousel_colors.reverse()
Reverse(s) == [k \in 1..Len(s) |-> s[Len(s) - k + 1]]

ColorLapFrame(lap_colors, delay) ==
    [fn |-> "color_lap", pc |-> "start", lap_colors |-> lap_colors, delay |-> delay, i |-> 0]

\* a bug: the led turned off is always the first
TurnOffFirstFrame(led) == [fn |-> "turn_off_led", pc |-> "start", led |-> 0]

TurnOffLedFrame(led) == [fn |-> "turn_off_led", pc |-> "start", led |-> led]

color_lap ==
    /\ InFn("color_lap")
    /\ LET f == Top
       IN  CASE f.pc = "start" ->
                  IF Len(f.lap_colors) = 0 THEN Panic(IndexPanic)
                  ELSE Push([f EXCEPT !.pc = "lit", !.i = 1], SetLedFrame(0, f.lap_colors[1]))
             [] f.pc = "lit" ->
                  \* the head of for i in 1..self.max_leds, and what follows the loop
                  IF StepFailed(ret) THEN Return(ret)
                  ELSE IF f.i < max_leds
                  THEN Push([f EXCEPT !.pc = "off"], TurnOffLedFrame(f.i - 1))
                  ELSE \E checks \in BOOLEAN :
                           LET led == U8Pred(max_leds, checks)
                           IN  IF led = OVERFLOW THEN Panic(OverflowPanic)
                               ELSE Push([f EXCEPT !.pc = "ret"], TurnOffLedFrame(led))
             [] f.pc = "off" ->
                  IF StepFailed(ret) THEN Return(ret)
                  ELSE IF f.i >= Len(f.lap_colors) THEN Panic(IndexPanic)
                  ELSE Push([f EXCEPT !.pc = "lit", !.i = @ + 1],
                            SetLedFrame(f.i, f.lap_colors[f.i + 1]))
             [] f.pc = "ret" -> Return(ret)
    /\ UNCHANGED <<dev, hvars, log, pre>> /\ tx' = NoTx

carousel ==
    /\ InFn("carousel")
    /\ LET f == Top
           carousel_colors == calculate_gradients(f.start_color, f.target_color, max_leds)
       IN  CASE f.pc = "start" ->
                  Push([f EXCEPT !.pc = "lap"], ColorLapFrame(carousel_colors, f.delay))
             [] f.pc = "lap" ->
                  IF StepFailed(ret) THEN Return(ret)
                  ELSE Push([f EXCEPT !.pc = "ret"],
                            ColorLapFrame(Reverse(carousel_colors), f.delay))
             [] f.pc = "ret" -> Return(ret)
    /\ UNCHANGED <<dev, hvars, log, pre>> /\ tx' = NoTx

(***************************************************************************)
(* Opening and dropping the handle.                                        *)
(***************************************************************************)
\* ((2^64 - 1) / 3) % 256: the low byte of a wrapped usize divided by three
USIZE_THIRD_LOW == 85

\* a bug: the two bytes of meta information are counted as color bytes
LedCountNoMeta(bytes_read, checks) == (bytes_read \div 3) % U8_MOD

\* ((bytes_read - 2) / 3) as u8, bytes_read a usize
LedCount(bytes_read, checks) ==
    IF bytes_read >= 2 THEN ((bytes_read - 2) \div 3) % U8_MOD
    ELSE IF checks THEN OVERFLOW
    ELSE USIZE_THIRD_LOW - (2 - bytes_read) + 1

SetAllOffFrame == [fn |-> "set_all_leds_color", pc |-> "start", color |-> COLOR_OFF]

new ==
    /\ InFn("new")
    /\ LET f == Top
       IN  CASE f.pc = "start" ->
                  \* device.get_feature_report(&mut buf).unwrap()
                  \E ok \in BOOLEAN, checks \in BOOLEAN :
                      LET leds == LedCount(Len(dev), checks)
                          len == IF leds = OVERFLOW THEN OVERFLOW ELSE U8Offset(leds, checks)
                      IN  /\ tx' = Attempted(NewTx("get_direct"), ok)
                          /\ log' = Append(log, [dir |-> "get_direct", data |-> <<REPORT_ALL>>,
                                                 result |-> IF ok THEN Ok(Len(dev))
                                                            ELSE UnwrapPanic])
                          /\ IF ~ok THEN Panic(UnwrapPanic) /\ UNCHANGED hvars
                             ELSE IF len = OVERFLOW THEN Panic(OverflowPanic) /\ UNCHANGED hvars
                             ELSE /\ handle' = "open"
                                  /\ max_leds' = leds
                                  /\ report_length' = len
                                  /\ Push([f EXCEPT !.pc = "off"], SetAllOffFrame)
             [] f.pc = "off" ->
                  /\ IF Propagates(ret)
                     THEN Push([f EXCEPT !.pc = "failed", !.err = ret],
                               [fn |-> "drop", pc |-> "start"])
                     ELSE Return(Ok(Unit))
                  /\ tx' = NoTx
                  /\ UNCHANGED <<hvars, log>>
             [] f.pc = "failed" -> Return(f.err) /\ tx' = NoTx /\ UNCHANGED <<hvars, log>>
    /\ UNCHANGED <<dev, pre>>

drop ==
    /\ InFn("drop")
    /\ LET f == Top
       IN  CASE f.pc = "start" ->
                  Push([f EXCEPT !.pc = "unwrap"], SetAllOffFrame) /\ UNCHANGED hvars
             [] f.pc = "unwrap" ->
                  /\ IF ret.kind = "Err" THEN Panic(UnwrapPanic) ELSE Return(Ok(Unit))
                  /\ handle' = "dropped"
                  /\ UNCHANGED <<max_leds, report_length>>
    /\ tx' = NoTx
    /\ UNCHANGED <<dev, log, pre>>

(***************************************************************************)
(* The caller.                                                             *)
(***************************************************************************)
NoCall == [fn |-> "none", pc |-> "none"]
NoLast == [call |-> NoCall, outcome |-> None]

Begin(f) ==
    /\ stack = <<>>
    /\ stack' = <<f>>
    /\ call' = f
    /\ outcome' = Running
    /\ ret' = None
    /\ tx' = NoTx
    /\ log' = <<>>
    /\ last' = IF Mutates(f.fn) THEN NoLast ELSE last
    /\ pre' = IF Mutates(f.fn) THEN Shown(dev) ELSE pre
    /\ UNCHANGED <<dev, hvars>>

\* BlinkStick::new()
Open == handle = "none" /\ Begin([fn |-> "new", pc |-> "start", err |-> None])

\* the handle goes out of scope
Close == handle = "open" /\ Begin([fn |-> "drop", pc |-> "start"])

\* a call of one of the public functions, its arguments among frames
Invoke(frames) == handle = "open" /\ \E f \in frames : Begin(f)

(***************************************************************************)
(* Inputs.                                                                 *)
(***************************************************************************)
\* the colors callers pass, and the LEDs show at the start
Palette == {COLOR_OFF, Color(17, 2, 3)}

\* the smallest led whose offset led * 3 + 2 does not fit a u8
OverflowLed == (U8_MOD - 1) \div 3

\* the led arguments: every led of the largest device, one past it, and one that overflows
LedInputs == 0..MaxLeds \cup {OverflowLed}

\* the sequences over S of length at most n
SeqsUpTo(S, n) == UNION {[1..k -> S] : k \in 0..n}

\* the device report that shows the colors
DevOf(colors) ==
    [i \in 1..(3 * Len(colors) + 2) |->
        IF i = 1 THEN REPORT_ALL
        ELSE IF i = 2 THEN 0
        ELSE LET c == colors[((i - 3) \div 3) + 1]
             IN  CASE (i - 3) % 3 = 0 -> c.g
                   [] (i - 3) % 3 = 1 -> c.r
                   [] OTHER -> c.b]

\* the devices: 1..MaxLeds LEDs, each of any color of P
Devices(P) == {DevOf(cs) : cs \in UNION {[1..n -> P] : n \in 1..MaxLeds}}

InitCommon ==
    /\ stack = <<>>
    /\ ret = None
    /\ call = NoCall
    /\ outcome = None
    /\ last = NoLast
    /\ tx = NoTx
    /\ log = <<>>

\* an opened handle on a device in any state
InitOpened(P) ==
    /\ dev \in Devices(P)
    /\ pre = Shown(dev)
    /\ handle = "open"
    /\ max_leds = LedsIn(Len(dev))
    /\ report_length = LedsIn(Len(dev)) * 3 + 2
    /\ InitCommon

\* no handle yet, the device in any state
InitClosed(P) ==
    /\ dev \in Devices(P)
    /\ pre = Shown(dev)
    /\ handle = "none"
    /\ max_leds = 0
    /\ report_length = 0
    /\ InitCommon

(***************************************************************************)
(* Spec: the functions that set and get colors, on an opened handle.       *)
(***************************************************************************)
FrameCalls ==
    {[fn |-> "set_led_color", pc |-> "start", led |-> l, color |-> c] :
        l \in LedInputs, c \in Palette}
    \cup {[fn |-> "set_multiple_leds_color", pc |-> "start", leds |-> ls, color |-> c] :
        ls \in SeqsUpTo(LedInputs, 2), c \in Palette}
    \cup {[fn |-> "set_all_leds_color", pc |-> "start", color |-> c] : c \in Palette}
    \cup {[fn |-> "set_all_leds_colors", pc |-> "start", colors |-> cs] :
        cs \in SeqsUpTo(Palette, MaxLeds + 1)}
    \cup {[fn |-> "get_led_color", pc |-> "start", led |-> l] : l \in LedInputs}
    \cup {[fn |-> "get_all_led_colors", pc |-> "start"]}

Init == InitOpened(Palette)

Next ==
    \/ Invoke(FrameCalls)
    \/ set_led_color
    \/ set_multiple_leds_color
    \/ set_all_leds_color
    \/ set_all_leds_colors
    \/ get_all_led_colors
    \/ get_led_color
    \/ send_feature_to_blinkstick
    \/ get_feature_from_blinkstick

Spec == Init /\ [][Next]_vars

(***************************************************************************)
(* SpecOpen: opening a handle on a device in any state, and dropping it.   *)
(***************************************************************************)
InitOpen == InitClosed(Palette)

NextOpen ==
    \/ Open
    \/ Close
    \/ new
    \/ drop
    \/ set_all_leds_color
    \/ set_multiple_leds_color
    \/ send_feature_to_blinkstick

SpecOpen == InitOpen /\ [][NextOpen]_vars


(***************************************************************************)
(* SpecSize: opening a handle on a device whose report has any number of   *)
(* bytes that holds the meta information and fits the buffer.              *)
(***************************************************************************)
\* the bytes of meta information that begin a report
META_BYTES == 2

\* a report of n bytes, every byte of color the same
SizedDev(n, byte) ==
    [i \in 1..n |-> IF i = 1 THEN REPORT_ALL ELSE IF i <= META_BYTES THEN 0 ELSE byte]

InitSize ==
    /\ dev \in {SizedDev(n, byte) : n \in META_BYTES..REPORT_ARRAY_BYTES, byte \in {0, 17}}
    /\ pre = Shown(dev)
    /\ handle = "none"
    /\ max_leds = 0
    /\ report_length = 0
    /\ InitCommon

SpecSize == InitSize /\ [][NextOpen]_vars

(***************************************************************************)
(* SpecGradient: calculate_gradients on colors of low, middle and high     *)
(* channels and on every number of steps up to MaxGradientSteps.           *)
(***************************************************************************)
Channels == {0, 1, 17, 128, 255}

GradientColors == {Color(a, b, 255 - a) : a \in Channels, b \in Channels}

\* a function of the crate calls calculate_gradients(start_color, target_color, steps)
CallGradients ==
    /\ stack = <<>>
    /\ call = NoCall
    /\ \E s \in GradientColors, t \in GradientColors, n \in 0..MaxGradientSteps :
           /\ call' = [fn |-> "calculate_gradients", pc |-> "start",
                       start_color |-> s, target_color |-> t, steps |-> n]
           /\ outcome' = Ok(calculate_gradients(s, t, n))
           /\ ret' = Ok(calculate_gradients(s, t, n))
    /\ UNCHANGED <<dev, hvars, stack, last, tx, log, pre>>

InitGradient == InitOpened({COLOR_OFF})

NextGradient == CallGradients

SpecGradient == InitGradient /\ [][NextGradient]_vars

(***************************************************************************)
(* SpecAnim: one animation on an opened handle, the device in any state.   *)
(***************************************************************************)
\* a duration that a step's i/o can stay within, meet and overrun
Durations == {MaxElapsed}

StepCounts == 0..MaxSteps

\* lists of leds: all in range on the largest device, some out of range on smaller ones
LedLists == SeqsUpTo(0..(MaxLeds - 1), 2)

BlinkCalls ==
    {[fn |-> "blink_led_color", pc |-> "start", led |-> l, delay |-> d, blinks |-> n,
      color |-> c, n |-> 0] :
        l \in 0..MaxLeds, d \in Durations, n \in 0..MaxBlinks, c \in Palette}
    \cup {BlinkMultipleFrame(ls, d, n, c) :
        ls \in LedLists, d \in Durations, n \in 0..MaxBlinks, c \in Palette}
    \cup {[fn |-> "blink_all_leds_color", pc |-> "start", delay |-> d, blinks |-> n,
           color |-> c] :
        d \in Durations, n \in 0..MaxBlinks, c \in Palette}

TransformCalls ==
    {TransformLedFrame(l, d, n, c) :
        l \in 0..MaxLeds, d \in Durations, n \in StepCounts, c \in Palette}
    \cup {TransformMultipleFrame(ls, d, n, c) :
        ls \in LedLists, d \in Durations, n \in StepCounts, c \in Palette}
    \cup {TransformAllColorFrame(d, n, c) :
        d \in Durations, n \in StepCounts, c \in Palette}
    \cup {TransformAllColorsFrame(d, n, cs) :
        d \in Durations, n \in StepCounts, cs \in SeqsUpTo(Palette, MaxLeds)}

PulseCalls ==
    {[fn |-> "pulse_led_color", pc |-> "start", led |-> l, duration |-> d, steps |-> n,
      color |-> c, old |-> <<>>] :
        l \in 0..MaxLeds, d \in Durations, n \in StepCounts, c \in Palette}
    \cup {[fn |-> "pulse_multiple_leds_color", pc |-> "start", leds |-> ls, duration |-> d,
           steps |-> n, color |-> c, old |-> <<>>] :
        ls \in LedLists, d \in Durations, n \in StepCounts, c \in Palette}
    \cup {[fn |-> "pulse_all_leds_color", pc |-> "start", duration |-> d, steps |-> n,
           color |-> c, old |-> <<>>] :
        d \in Durations, n \in StepCounts, c \in Palette}

CarouselCalls ==
    {[fn |-> "carousel", pc |-> "start", start_color |-> a, target_color |-> b,
      delay |-> d] :
        a \in Palette, b \in Palette, d \in Durations}

\* the caller animates once
Animate ==
    /\ call = NoCall
    /\ Invoke(BlinkCalls \cup TransformCalls \cup PulseCalls \cup CarouselCalls)

\* and then reads the colors back
ReadBack ==
    /\ call # NoCall
    /\ Invoke({GetLedFrame(l) : l \in 0..MaxLeds} \cup {GetAllFrame})

NextAnim ==
    \/ Animate
    \/ ReadBack
    \/ blink_led_color
    \/ blink_multiple_leds_color
    \/ blink_all_leds_color
    \/ transform_led_color
    \/ transform_multiple_leds_color
    \/ transform_all_leds_color
    \/ transform_all_leds_colors
    \/ transform_leds
    \/ pulse_led_color
    \/ pulse_multiple_leds_color
    \/ pulse_all_leds_color
    \/ carousel
    \/ color_lap
    \/ turn_off_led
    \/ set_led_color
    \/ set_multiple_leds_color
    \/ set_all_leds_colors
    \/ get_led_color
    \/ get_all_led_colors
    \/ send_feature_to_blinkstick
    \/ get_feature_from_blinkstick

SpecAnim == Init /\ [][NextAnim]_vars

(***************************************************************************)
(* The claims.                                                             *)
(***************************************************************************)
Finished == outcome.kind \in {"Ok", "Err", "panic"}

\* C1: a send or receive transaction returns Ok exactly when one of its
\* attempts succeeded, makes at most 5 + 1 attempts, and returns its error
\* only after the 5 immediate attempts and the delayed one all failed; what
\* it returns is what its caller gets.
C1_RetryResult ==
    (tx.dir \in {"send", "get"} /\ tx.result # None) =>
        /\ ret = tx.result
        /\ tx.attempts <= IMMEDIATE_ATTEMPTS + 1
        /\ (tx.result.kind = "Ok") <=> (tx.oks >= 1)
        /\ tx.result.kind \in {"Ok", "Err"}
        /\ tx.result.kind = "Err" =>
              /\ tx.attempts = IMMEDIATE_ATTEMPTS + 1
              /\ tx.sleeps = 1
              /\ tx.slept_ms = BACKOFF_MS
              /\ tx.result.val = (IF tx.dir = "send" THEN "Send" ELSE "Get")

\* Scenario F: five failed attempts, then the sixth succeeds and send returns Ok
C1_Witness ==
    /\ tx.dir = "send"
    /\ tx.attempts = IMMEDIATE_ATTEMPTS + 1
    /\ tx.oks = 1
    /\ tx.result = Ok(Unit)

\* the led arguments of a call of a function that addresses LEDs
LedArgs(f) ==
    IF f.fn \in {"set_led_color", "get_led_color", "blink_led_color",
                 "transform_led_color", "pulse_led_color"}
    THEN {f.led}
    ELSE IF f.fn \in {"set_multiple_leds_color", "blink_multiple_leds_color",
                      "transform_multiple_leds_color"}
    THEN {f.leds[i] : i \in 1..Len(f.leds)}
    ELSE {}

\* C2: an addressing operation called with a led >= max_leds never returns Ok
\* (it halts with an out-of-range indication).
C2_OutOfRangeNeverOk ==
    (Finished /\ \E led \in LedArgs(call) : led >= max_leds) => outcome.kind # "Ok"

TransformFns ==
    {"transform_led_color", "transform_multiple_leds_color",
     "transform_all_leds_color", "transform_all_leds_colors"}

PulseFns == {"pulse_led_color", "pulse_multiple_leds_color", "pulse_all_leds_color"}

AnimationFns ==
    TransformFns \cup PulseFns
    \cup {"blink_led_color", "blink_multiple_leds_color", "blink_all_leds_color", "carousel"}

\* a read that followed the call c has returned
ReadAfter(c) ==
    /\ Finished
    /\ call.fn \in {"get_led_color", "get_all_led_colors"}
    /\ outcome.kind = "Ok"
    /\ last.call = c
    /\ last.outcome.kind = "Ok"

\* the read that has returned tells the color of led
Reads(led) == call.fn = "get_led_color" => call.led = led

\* the color it tells
ReadColor(led) == IF call.fn = "get_led_color" THEN outcome.val ELSE outcome.val[led + 1]

\* the leds the transform call c addresses, each with its target: <<led, target>>
Targets(c) ==
    CASE c.fn = "transform_led_color" -> {<<c.led, c.target_color>>}
      [] c.fn = "transform_multiple_leds_color" ->
           {<<c.leds[i], c.target_color>> : i \in 1..Len(c.leds)}
      [] c.fn = "transform_all_leds_color" -> {<<k - 1, c.target_color>> : k \in 1..max_leds}
      [] c.fn = "transform_all_leds_colors" ->
           {<<k - 1, c.target_colors[k]>> :
               k \in {j \in 1..max_leds : j <= Len(c.target_colors)}}

\* C3: after a transform call of any of the four variants returned Ok with
\* steps >= 1, a read of an addressed led returns exactly the led's target color.
C3_TransformEndsAtTarget ==
    \A fn \in TransformFns :
        (last.call.fn = fn /\ last.call.steps >= 1 /\ ReadAfter(last.call)) =>
            \A t \in Targets(last.call) : Reads(t[1]) => ReadColor(t[1]) = t[2]

\* get_led_color after a transform_led_color of MaxSteps steps whose target
\* the led did not show before
C3_Witness ==
    /\ last.call.fn = "transform_led_color"
    /\ last.call.steps = MaxSteps
    /\ ReadAfter(last.call)
    /\ call.fn = "get_led_color"
    /\ call.led = last.call.led
    /\ pre[call.led + 1] # last.call.target_color
    /\ outcome.val = last.call.target_color

\* the leds the pulse call c animates, and for the variants of several leds
\* every led of the device
Pulsed(c) == IF c.fn = "pulse_led_color" THEN {c.led} ELSE {k - 1 : k \in 1..max_leds}

\* C4: after a pulse call of any of the three variants returned Ok with
\* steps >= 1, a read of an animated led (of any led, for the variants of
\* several leds) returns the color the led had when the pulse was called.
C4_PulseRestores ==
    \A fn \in PulseFns :
        (last.call.fn = fn /\ last.call.steps >= 1 /\ ReadAfter(last.call)) =>
            \A led \in Pulsed(last.call) : Reads(led) => ReadColor(led) = pre[led + 1]

\* get_all_led_colors after a pulse of MaxSteps steps of the last led alone,
\* on a device of MaxLeds leds that showed two different colors, neither the
\* pulse's on the last led
C4_Witness ==
    /\ last.call.fn = "pulse_multiple_leds_color"
    /\ last.call.steps = MaxSteps
    /\ last.call.leds = <<MaxLeds - 1>>
    /\ ReadAfter(last.call)
    /\ call.fn = "get_all_led_colors"
    /\ max_leds = MaxLeds
    /\ pre[max_leds] # last.call.color
    /\ pre[1] # pre[max_leds]
    /\ outcome.val = pre

\* C5: once a transaction of an animation call has failed, every step of the
\* call hands the error one caller up, begins no transaction and leaves the
\* device as it is, and the call's caller gets that error.
C5_FailureAborts ==
    [][(stack # <<>> /\ ret.kind = "Err" /\ call.fn \in AnimationFns) =>
          /\ ret' = ret
          /\ Len(stack') = Len(stack) - 1
          /\ log' = log
          /\ dev' = dev
          /\ (stack' = <<>> => outcome' = ret)]_vars

\* a transform_led_color whose second write failed: the led shows the first
\* step's color, neither what it showed before nor the target
C5_Witness ==
    /\ Finished
    /\ call.fn = "transform_led_color"
    /\ outcome = Err("Send")
    /\ Len(log) = 3
    /\ Shown(dev)[call.led + 1] \notin {pre[call.led + 1], call.target_color}

\* C6: dropping the handle never fails: it does not panic, whatever the
\* all-off transaction returned.
C6_DropNeverFails ==
    (Finished /\ call.fn = "drop") => outcome.kind = "Ok"

\* the frames of the transform functions that pace their steps
Pacing ==
    {i \in 1..Len(stack) :
        stack[i].fn \in {"transform_led_color", "transform_leds",
                         "transform_multiple_leds_color"}}

\* C7: a step of a transform that took longer than the interval is followed
\* by a sleep of zero, and the call does not fail for it.
C7_OverrunClamped ==
    /\ \A i \in Pacing :
           (stack[i].pc = "paced" /\ stack[i].elapsed > stack[i].interval) =>
               stack[i].slept = 0
    /\ ~(outcome.kind = "panic" /\ outcome.val = DurationPanic.val)

\* C8: a transport failure that was not repeated through the 5 + 1 attempts
\* of the retry layer never surfaces as an error or a halt of the call.
C8_TransientFailureAbsorbed ==
    (tx.oks = 0 /\ tx.attempts >= 1 /\ tx.attempts <= IMMEDIATE_ATTEMPTS) => ~Finished

\* C9: set_all_leds_colors(colors) with max_leds colors, then
\* get_all_led_colors(), both successful: the colors read are colors.
C9_FrameRoundTrip ==
    ( /\ call.fn = "get_all_led_colors"
      /\ outcome.kind = "Ok"
      /\ last.call.fn = "set_all_leds_colors"
      /\ last.outcome.kind = "Ok"
      /\ Len(last.call.colors) = max_leds ) => outcome.val = last.call.colors

\* a round trip of a frame that holds a color of three different channels
C9_Witness ==
    /\ call.fn = "get_all_led_colors"
    /\ outcome.kind = "Ok"
    /\ last.call.fn = "set_all_leds_colors"
    /\ last.outcome.kind = "Ok"
    /\ Len(last.call.colors) = max_leds
    /\ max_leds = MaxLeds
    /\ last.call.colors[max_leds] = Color(17, 2, 3)
    /\ Shown(dev)[1] = COLOR_OFF

\* C10: set_led_color(led, C), then get_led_color(led), both successful: the
\* color read is C.
C10_SingleLedRoundTrip ==
    ( /\ call.fn = "get_led_color"
      /\ outcome.kind = "Ok"
      /\ last.call.fn = "set_led_color"
      /\ last.outcome.kind = "Ok"
      /\ last.call.led = call.led ) => outcome.val = last.call.color

\* Scenario B on the last led of the device
C10_Witness ==
    /\ call.fn = "get_led_color"
    /\ outcome.kind = "Ok"
    /\ last.call.fn = "set_led_color"
    /\ last.outcome.kind = "Ok"
    /\ last.call.led = call.led
    /\ call.led = max_leds - 1
    /\ last.call.color = Color(17, 2, 3)

\* get_all_led_colors has returned Ok right after the call of fn returned Ok
FrameReadAfter(fn) ==
    /\ Finished
    /\ call.fn = "get_all_led_colors"
    /\ outcome.kind = "Ok"
    /\ last.call.fn = fn
    /\ last.outcome.kind = "Ok"

\* C11: set_all_leds_color(C), then get_all_led_colors(), both successful:
\* the colors read are max_leds entries, each of them C.
C11_AllLedsRoundTrip ==
    FrameReadAfter("set_all_leds_color") =>
        /\ Len(outcome.val) = max_leds
        /\ \A k \in 1..max_leds : outcome.val[k] = last.call.color

\* on the largest device, lit before, and a color that is not off
C11_Witness ==
    /\ FrameReadAfter("set_all_leds_color")
    /\ max_leds = MaxLeds
    /\ last.call.color = Color(17, 2, 3)
    /\ \A k \in 1..max_leds : pre[k] = COLOR_OFF
    /\ \A k \in 1..max_leds : outcome.val[k] = Color(17, 2, 3)

\* the leds of the list leds, as a set
LedSet(leds) == {leds[i] : i \in 1..Len(leds)}

\* C12: set_multiple_leds_color(leds, C) with every led in range, then
\* get_all_led_colors(), both successful: the colors read are C at the leds
\* of the list and off at every other led, whatever those showed before.
C12_MultipleSetsRestOff ==
    ( /\ FrameReadAfter("set_multiple_leds_color")
      /\ \A led \in LedSet(last.call.leds) : led < max_leds ) =>
        outcome.val = [k \in 1..max_leds |->
                          IF k - 1 \in LedSet(last.call.leds) THEN last.call.color
                          ELSE COLOR_OFF]

\* the first led alone is set, on the largest device, whose last led was lit
C12_Witness ==
    /\ FrameReadAfter("set_multiple_leds_color")
    /\ last.call.leds = <<0>>
    /\ last.call.color = Color(17, 2, 3)
    /\ max_leds = MaxLeds
    /\ pre[max_leds] = Color(17, 2, 3)
    /\ outcome.val[max_leds] = COLOR_OFF
    /\ outcome.val[1] = Color(17, 2, 3)

BlinkFns == {"blink_led_color", "blink_multiple_leds_color", "blink_all_leds_color"}

\* the leds the blink call c addresses
Blinked(c) ==
    CASE c.fn = "blink_led_color" -> {c.led}
      [] c.fn = "blink_multiple_leds_color" -> LedSet(c.leds)
      [] c.fn = "blink_all_leds_color" -> {k - 1 : k \in 1..max_leds}

\* C13: after a blink call of any of the three variants returned Ok with
\* blinks >= 1, a read of an addressed led returns {0,0,0}.
C13_BlinkEndsOff ==
    \A fn \in BlinkFns :
        (last.call.fn = fn /\ last.call.blinks >= 1 /\ ReadAfter(last.call)) =>
            \A led \in Blinked(last.call) : Reads(led) => ReadColor(led) = COLOR_OFF

\* get_led_color after MaxBlinks blinks, in a color that is not off, of a led
\* that was lit before
C13_Witness ==
    /\ last.call.fn = "blink_led_color"
    /\ last.call.blinks = MaxBlinks
    /\ last.call.color # COLOR_OFF
    /\ ReadAfter(last.call)
    /\ call.fn = "get_led_color"
    /\ call.led = last.call.led
    /\ pre[call.led + 1] # COLOR_OFF
    /\ outcome.val = COLOR_OFF

\* C14: after carousel returned Ok, get_all_led_colors() returns {0,0,0} for
\* every led of the device, whatever the start color, the target color and
\* the colors before the call.
C14_CarouselEndsOff ==
    (last.call.fn = "carousel" /\ FrameReadAfter("carousel")) =>
        \A k \in 1..max_leds : outcome.val[k] = COLOR_OFF

\* on the largest device, every led lit before, neither color of the carousel off
C14_Witness ==
    /\ FrameReadAfter("carousel")
    /\ max_leds = MaxLeds
    /\ last.call.start_color # COLOR_OFF
    /\ last.call.target_color # COLOR_OFF
    /\ \A k \in 1..max_leds : pre[k] # COLOR_OFF
    /\ \A k \in 1..max_leds : outcome.val[k] = COLOR_OFF

\* the leds the device shows lit
Lit == {k \in 1..LedsIn(Len(dev)) : Shown(dev)[k] # COLOR_OFF}

\* C15: while a carousel runs, from its first write on, at most one led is lit.
C15_OneLit ==
    (call.fn = "carousel" /\ outcome = Running /\ Len(log) >= 2) => Cardinality(Lit) <= 1

\* C16: after BlinkStick::new returned Ok, every led of the device is off,
\* whatever the device showed before.
C16_OpenTurnsOff ==
    (Finished /\ call.fn = "new" /\ outcome.kind = "Ok") =>
        \A k \in 1..LedsIn(Len(dev)) : Shown(dev)[k] = COLOR_OFF

\* the largest device, every led lit before
C16_Witness ==
    /\ Finished
    /\ call.fn = "new"
    /\ outcome.kind = "Ok"
    /\ LedsIn(Len(dev)) = MaxLeds
    /\ \A k \in 1..MaxLeds : pre[k] = Color(17, 2, 3)
    /\ \A k \in 1..MaxLeds : Shown(dev)[k] = COLOR_OFF

\* C17: an opened handle on a device that reports n bytes, 2 <= n <= 100, has
\* max_leds = (n - 2) / 3 and report_length = max_leds * 3 + 2, which is at
\* most n and fits 8 bits (98 bytes: 32 leds, report_length 98); new never
\* ends in an arithmetic overflow.
C17_LedCount ==
    /\ handle = "open" =>
          /\ max_leds = (Len(dev) - 2) \div 3
          /\ report_length = max_leds * 3 + 2
          /\ report_length <= Len(dev)
          /\ report_length < U8_MOD
          /\ Len(dev) = 98 => (max_leds = 32 /\ report_length = 98)
    /\ (call.fn = "new" /\ outcome.kind = "panic") => outcome.val # OverflowPanic.val

\* Scenario A: new has returned Ok on a device that reports 98 bytes
C17_Witness ==
    /\ Finished
    /\ call.fn = "new"
    /\ outcome.kind = "Ok"
    /\ handle = "open"
    /\ Len(dev) = 98
    /\ max_leds = 32
    /\ report_length = 98

\* C18: for steps >= 1, calculate_gradients(start, target, steps) has exactly
\* steps elements and its last element is target; for steps = 1 it is [target].
C18_GradientEndsAtTarget ==
    (call.fn = "calculate_gradients" /\ call.steps >= 1) =>
        /\ Len(outcome.val) = call.steps
        /\ outcome.val[call.steps] = call.target_color
        /\ call.steps = 1 => outcome.val = <<call.target_color>>

\* a gradient of MaxGradientSteps steps from the highest red to the lowest,
\* whose first element is neither end
C18_Witness ==
    /\ call.fn = "calculate_gradients"
    /\ call.steps = MaxGradientSteps
    /\ call.start_color = Color(255, 17, 0)
    /\ call.target_color = Color(0, 128, 255)
    /\ Len(outcome.val) = MaxGradientSteps
    /\ outcome.val[1] \notin {call.start_color, call.target_color}
    /\ outcome.val[MaxGradientSteps] = call.target_color

MultiTransformFns ==
    {"transform_all_leds_color", "transform_all_leds_colors", "transform_multiple_leds_color"}

\* the write transactions of the call so far
Sends == {i \in 1..Len(log) : log[i].dir = "send"}

\* the number of reads that give the gradients of the call c their start colors
SourceReads(c) ==
    CASE c.fn = "transform_multiple_leds_color" -> Len(c.leds)
      [] c.fn = "transform_all_leds_color" -> max_leds
      [] c.fn = "transform_all_leds_colors" ->
           IF Len(c.target_colors) < max_leds THEN Len(c.target_colors) ELSE max_leds

\* C19: in a transform of several leds, every write comes after all the reads
\* that give the gradients their start colors; every write is one whole
\* frame (report 0x6 of report_length bytes); a call that returned Ok made
\* exactly steps writes; and after the k-th write every addressed led shows
\* the k-th element of its gradient.
C19_OneFramePerStep ==
    \A fn \in MultiTransformFns :
        call.fn = fn =>
            /\ \A i \in Sends :
                  /\ i > SourceReads(call)
                  /\ \A j \in 1..SourceReads(call) : log[j].dir = "get"
                  /\ log[i].data[1] = REPORT_ALL
                  /\ Len(log[i].data) = report_length
            /\ (Finished /\ outcome.kind = "Ok") => Cardinality(Sends) = call.steps
            /\ (Len(log) \in Sends /\ log[Len(log)].result.kind = "Ok") =>
                  \A t \in Targets(call) :
                      Shown(dev)[t[1] + 1] =
                          calculate_gradients(pre[t[1] + 1], t[2],
                                              call.steps)[Cardinality(Sends)]

\* the first of MaxSteps writes of transform_all_leds_color has been made on
\* the largest device, whose first led shows a color between its start and the target
C19_Witness ==
    /\ call.fn = "transform_all_leds_color"
    /\ call.steps = MaxSteps
    /\ outcome = Running
    /\ max_leds = MaxLeds
    /\ Cardinality(Sends) = 1
    /\ Len(log) \in Sends
    /\ log[Len(log)].result.kind = "Ok"
    /\ Len(log) = max_leds + 1
    /\ Shown(dev)[1] \notin {pre[1], call.target_color}

\* the transactions of the call that have failed
Failed == {i \in 1..Len(log) : log[i].result.kind = "Err"}

\* C20: a failed send transaction yields the error of kind Send and a
\* failed get transaction the one of kind Get, and a public function in
\* which a transaction failed returns that transaction's error.
C20_KindUnchanged ==
    /\ \A i \in Failed :
          log[i].result.val = IF log[i].dir = "send" THEN "Send" ELSE "Get"
    /\ (Finished /\ call.fn # "drop") => \A i \in Failed : outcome = log[i].result

\* C21: set_all_leds_colors called with more colors than the device has leds
\* panics.
C21_TooManyColorsPanic ==
    (Finished /\ call.fn = "set_all_leds_colors" /\ Len(call.colors) > max_leds) =>
        outcome.kind = "panic"

\* the leds the frame of the call c addresses
FrameLeds(c) ==
    CASE c.fn = "set_multiple_leds_color" -> LedSet(c.leds)
      [] c.fn = "set_all_leds_color" -> {k - 1 : k \in 1..max_leds}
      [] c.fn = "set_all_leds_colors" -> {k - 1 : k \in {j \in 1..max_leds : j <= Len(c.colors)}}

\* the color the call c gives to the led it addresses
FrameColor(c, led) == IF c.fn = "set_all_leds_colors" THEN c.colors[led + 1] ELSE c.color

\* C22: a frame that set_led_color writes is [0x5, 0, led, r, g, b]; a frame
\* that set_multiple_leds_color, set_all_leds_color or set_all_leds_colors
\* writes has byte 0 = 0x6, byte 1 = 0 and report_length bytes, holds g, r, b
\* at led * 3 + 2 for every addressed led, and zeroes for every other led.
C22_WireFormat ==
    \A i \in Sends :
        LET d == log[i].data
        IN  /\ call.fn = "set_led_color" =>
                  d = <<5, 0, call.led, call.color.r, call.color.g, call.color.b>>
            /\ call.fn \in {"set_multiple_leds_color", "set_all_leds_color",
                            "set_all_leds_colors"} =>
                  /\ d[1] = 6
                  /\ d[2] = 0
                  /\ Len(d) = report_length
                  /\ \A led \in 0..(max_leds - 1) :
                        <<d[led * 3 + 3], d[led * 3 + 4], d[led * 3 + 5]>> =
                            IF led \in FrameLeds(call)
                            THEN <<FrameColor(call, led).g, FrameColor(call, led).r,
                                   FrameColor(call, led).b>>
                            ELSE <<0, 0, 0>>

\* C23: a send or receive transaction makes at most 5 + 1 attempts and none
\* after its first successful one, and sleeps the backoff at most once, only
\* after 5 failed attempts and always before a 6th attempt.
C23_RetryPacing ==
    tx.dir \in {"send", "get"} =>
        /\ tx.attempts <= IMMEDIATE_ATTEMPTS + 1
        /\ tx.oks <= 1
        /\ tx.oks = 1 => (tx.result.kind = "Ok" /\ ret = tx.result)
        /\ tx.sleeps <= 1
        /\ tx.slept_ms = tx.sleeps * BACKOFF_MS
        /\ tx.sleeps = 1 => tx.attempts - tx.oks >= IMMEDIATE_ATTEMPTS
        /\ tx.sleeps = 0 => tx.attempts <= IMMEDIATE_ATTEMPTS
        /\ (tx.oks = 1 /\ tx.attempts <= IMMEDIATE_ATTEMPTS) => tx.sleeps = 0

\* a receive transaction between its 5th failed attempt and its 6th attempt,
\* the backoff slept
C23_Witness ==
    /\ tx.dir = "get"
    /\ tx.attempts = IMMEDIATE_ATTEMPTS
    /\ tx.oks = 0
    /\ tx.sleeps = 1
    /\ tx.result = None

\* C24: a call with a led at or past max_leds begins no transaction, read or
\* write, leaves the device as it was, and ends in the out-of-range panic.
C24_ValidationFirst ==
    (\E led \in LedArgs(call) : led >= max_leds) =>
        /\ log = <<>>
        /\ Shown(dev) = pre
        /\ Finished => outcome.kind = "panic"

\* whether the frame d carries the color c for every led of the blink call b
BlinkFrame(b, d, c) ==
    IF b.fn = "blink_led_color"
    THEN d = <<5, 0, b.led, c.r, c.g, c.b>>
    ELSE /\ d[1] = 6
         /\ \A led \in Blinked(b) :
                <<d[led * 3 + 3], d[led * 3 + 4], d[led * 3 + 5]>> = <<c.g, c.r, c.b>>

\* C25: the transactions of a blink call are writes that alternate between
\* the blink's color and off, each begun after the one before succeeded; a
\* call that returns Ok has made exactly 2 * blinks of them, and with
\* blinks = 0 none, the leds left as they were.
C25_BlinkAlternates ==
    (call.fn \in BlinkFns) =>
        /\ Len(log) <= 2 * call.blinks
        /\ \A i \in 1..Len(log) :
              /\ log[i].dir = "send"
              /\ i < Len(log) => log[i].result.kind = "Ok"
              /\ BlinkFrame(call, log[i].data,
                            IF i % 2 = 1 THEN call.color ELSE COLOR_OFF)
        /\ outcome.kind = "Ok" => Len(log) = 2 * call.blinks
        /\ call.blinks = 0 => (log = <<>> /\ Shown(dev) = pre)

\* blink_multiple_leds_color of both leds, MaxBlinks times in a color that is
\* not off, returned Ok
C25_Witness ==
    /\ call.fn = "blink_multiple_leds_color"
    /\ LedSet(call.leds) = {0, 1}
    /\ call.blinks = MaxBlinks
    /\ call.color # COLOR_OFF
    /\ outcome.kind = "Ok"
    /\ Len(log) = 2 * MaxBlinks

\* blink_led_color with blinks = 0 returned Ok, a led lit before and after
C25_WitnessZero ==
    /\ call.fn = "blink_led_color"
    /\ call.blinks = 0
    /\ outcome.kind = "Ok"
    /\ \E k \in 1..max_leds : Shown(dev)[k] # COLOR_OFF

\* the write number p (from 1) of the first lap over the gradient G: led and color
FirstLapWrite(G, p) ==
    IF p % 2 = 1 THEN <<(p - 1) \div 2, G[(p + 1) \div 2]>>
    ELSE <<(p \div 2) - 1, COLOR_OFF>>

\* the write number p of the second lap: led i is lit with the first lap's
\* color of led max_leds - 1 - i
SecondLapWrite(G, p) ==
    IF p % 2 = 1 THEN <<(p - 1) \div 2, G[max_leds - ((p - 1) \div 2)]>>
    ELSE <<(p \div 2) - 1, COLOR_OFF>>

\* the write number i of carousel c
CarouselWrite(c, i) ==
    LET G == calculate_gradients(c.start_color, c.target_color, max_leds)
    IN  IF i <= 2 * max_leds THEN FirstLapWrite(G, i)
        ELSE SecondLapWrite(G, i - 2 * max_leds)

\* C26: in each lap of carousel led 0 is lit with G[0], then for i from 1 to
\* max_leds - 1 led i - 1 is turned off and led i lit with G[i], then led
\* max_leds - 1 is turned off; the first lap uses the gradient of max_leds
\* steps from start to target, the second the same gradient reversed.
C26_LapOrder ==
    (call.fn = "carousel") =>
        /\ Len(log) <= 4 * max_leds
        /\ \A i \in 1..Len(log) :
              LET w == CarouselWrite(call, i)
              IN  /\ log[i].dir = "send"
                  /\ i < Len(log) => log[i].result.kind = "Ok"
                  /\ log[i].data = <<5, 0, w[1], w[2].r, w[2].g, w[2].b>>
        /\ outcome.kind = "Ok" => Len(log) = 4 * max_leds

\* carousel between two different colors over MaxLeds leds returned Ok
C26_Witness ==
    /\ call.fn = "carousel"
    /\ call.start_color # call.target_color
    /\ max_leds = MaxLeds
    /\ outcome.kind = "Ok"
    /\ Len(log) = 4 * MaxLeds

\* the channels of a color
ChannelsOf(c) == <<c.r, c.g, c.b>>

\* C27: element number step of the gradient is, in every channel,
\* start * (1 - step/steps) + target * (step/steps) truncated to the integer
\* below, and so lies between the start and the target value inclusive.
C27_GradientFloor ==
    (call.fn = "calculate_gradients" /\ outcome.kind = "Ok") =>
        \A step \in 1..call.steps : \A ch \in 1..3 :
            LET s == ChannelsOf(call.start_color)[ch]
                t == ChannelsOf(call.target_color)[ch]
                v == ChannelsOf(outcome.val[step])[ch]
            IN  /\ v = (s * (call.steps - step) + t * step) \div call.steps
                /\ (IF s <= t THEN s ELSE t) <= v
                /\ v <= (IF s <= t THEN t ELSE s)

\* C28: set_multiple_leds_color rejects its leds exactly when one of them is
\* at or past max_leds, also when led * 3 + 2 does not fit 8 bits: with such
\* a led it writes no frame, and with none it does not panic.
C28_OffsetCheck ==
    (call.fn = "set_multiple_leds_color") =>
        /\ (\E led \in LedSet(call.leds) : led >= max_leds) =>
               (Sends = {} /\ outcome.kind \notin {"Ok", "Err"})
        /\ (\A led \in LedSet(call.leds) : led < max_leds) => outcome.kind # "panic"

\* the all-off write of new, the first write of the call, failed
NewOffFailed ==
    \E i \in Sends : /\ \A j \in Sends : i <= j
                     /\ log[i].result.kind = "Err"

\* C29: when the all-off write of new fails, new returns the error of kind
\* Send as a value and does not panic, the handle it built dropped.
C29_NewReturnsSendError ==
    (Finished /\ call.fn = "new" /\ NewOffFailed) =>
        (outcome.kind = "Err" /\ outcome.val = "Send")

\* C30: during and after transform_multiple_leds_color every led that is not
\* in leds shows the color it showed before the call.
C30_OthersKept ==
    (call.fn = "transform_multiple_leds_color") =>
        \A k \in 1..max_leds :
            (k - 1) \notin LedSet(call.leds) => Shown(dev)[k] = pre[k]

\* transform_multiple_leds_color of the first led alone returned Ok after
\* MaxSteps steps; the other led was lit in another color than the target
\* and still is, and the first led shows the target
C30_Witness ==
    /\ call.fn = "transform_multiple_leds_color"
    /\ call.leds = <<0>>
    /\ call.steps = MaxSteps
    /\ max_leds = MaxLeds
    /\ outcome.kind = "Ok"
    /\ pre[max_leds] \notin {COLOR_OFF, call.target_color}
    /\ Shown(dev)[max_leds] = pre[max_leds]
    /\ Shown(dev)[1] = call.target_color
    /\ pre[1] # call.target_color

\* the colors given, then off for every led past them
PaddedColors(colors) ==
    [k \in 1..max_leds |-> IF k <= Len(colors) THEN colors[k] ELSE COLOR_OFF]

\* C31: set_all_leds_colors given fewer colors than the device has leds
\* writes one frame of report_length bytes that holds the colors given for
\* the first leds and off for every other led, which the device then shows;
\* so does every step of transform_all_leds_colors given fewer targets, which
\* ends with the targets on the first leds and the others off.
C31_ShortColorsPadOff ==
    /\ \A i \in 1..Len(stack) :
          ( /\ stack[i].fn = "set_all_leds_colors"
            /\ stack[i].pc = "ret"
            /\ Len(stack[i].colors) < max_leds ) =>
              LET want == PaddedColors(stack[i].colors)
              IN  IF i < Len(stack)
                  THEN /\ stack[i + 1].fn = "send_feature_to_blinkstick"
                       /\ LET d == stack[i + 1].feature
                          IN  /\ Len(d) = report_length
                              /\ d[1] = 6
                              /\ d[2] = 0
                              /\ \A k \in 1..max_leds :
                                    <<d[3 * k], d[3 * k + 1], d[3 * k + 2]>> =
                                        <<want[k].g, want[k].r, want[k].b>>
                  ELSE ret.kind = "Ok" => Shown(dev) = want
    /\ ( /\ call.fn = "set_all_leds_colors"
         /\ outcome.kind = "Ok"
         /\ Len(call.colors) < max_leds ) => Shown(dev) = PaddedColors(call.colors)
    /\ ( /\ call.fn = "transform_all_leds_colors"
         /\ outcome.kind = "Ok"
         /\ Len(call.target_colors) < max_leds ) =>
             Shown(dev) = PaddedColors(call.target_colors)

\* transform_all_leds_colors given one target that is not off, on a device
\* of MaxLeds leds whose last led was lit, returned Ok after MaxSteps steps:
\* the first led shows the target and the last is off
C31_Witness ==
    /\ call.fn = "transform_all_leds_colors"
    /\ Len(call.target_colors) = 1
    /\ call.target_colors[1] # COLOR_OFF
    /\ call.steps = MaxSteps
    /\ max_leds = MaxLeds
    /\ pre[max_leds] # COLOR_OFF
    /\ outcome.kind = "Ok"
    /\ Shown(dev)[1] = call.target_colors[1]
    /\ Shown(dev)[max_leds] = COLOR_OFF

====
